---- MODULE Spec2Model ----
(***************************************************************************)
(* Model of packages/jest-environment-puppeteer/src/env.ts: the lifecycle  *)
(* of the browser, context and page references held in the test            *)
(* environment's global object, and the operations setup, teardown,        *)
(* jestPuppeteer.resetPage, jestPuppeteer.resetBrowser and                 *)
(* jestPuppeteer.debug.                                                    *)
(*                                                                         *)
(* Every operation is an async function.  A task is one invocation of an   *)
(* operation; a step of a task is the synchronous code between two of its  *)
(* await points.  The promises returned by the automation client settle at *)
(* arbitrary times, and operations are invoked at arbitrary times; the     *)
(* continuations that are due run before the next promise settles, in any  *)
(* order.                                                                  *)
(***************************************************************************)
EXTENDS Integers, Sequences, FiniteSets, TLC

\* Number of operations invoked on one environment instance.
MaxOps == 2

Tasks == 1..MaxOps

VARIABLES
  browser,          \* global.browser: 0 (undefined) or a connection id
  context,          \* global.context: NoContext or a context handle
  page,             \* global.page: 0 (undefined) or a page id
  puppeteerConfig,  \* the configuration readConfig() returns
  jestPuppeteer,    \* TRUE once global.jestPuppeteer has been assigned
  testTimeout,      \* this.global[testTimeoutSymbol]; 0 while unset
  tasks,            \* the invocations: position, promise state, last client call
  connected,        \* the client's connections made and not yet disconnected
  incognitos,       \* the client's isolated contexts created and not yet closed
  pages,            \* the client's pages opened and not yet closed
  listeners,        \* per page ever opened: registrations of handlePageError
  nextB, nextC, nextP,  \* the next fresh connection / context / page id
  overlapped,       \* history: the tasks that were in flight together with another
  emitted           \* the page whose "pageerror" the last step dispatched and the
                    \* uncaughtException events it sent the process; NoEmit otherwise

vars == <<browser, context, page, puppeteerConfig, jestPuppeteer, testTimeout,
          tasks, connected, incognitos, pages, listeners, nextB, nextC, nextP,
          overlapped, emitted>>

client == <<connected, incognitos, pages, nextB, nextC, nextP>>

----------------------------------------------------------------------------
(* Handles.  A handle is <<kind, id>>.  The default context of connection  *)
(* b is the one object <<"default", b>>; an isolated context has its own   *)
(* id.                                                                     *)

NoHandle == <<"none", 0>>
NoContext == NoHandle
DefaultContext(b) == <<"default", b>>
Incognito(c) == <<"incognito", c>>
BrowserH(b) == <<"browser", b>>
PageH(p) == <<"page", p>>

\* No page error was dispatched.
NoEmit == <<0, 0>>

\* BrowserContext.isIncognito()
isIncognito(c) == c[1] = "incognito"

\* The values global.puppeteerConfig.browserContext is drawn from:
\* absent, the two recognised modes, and an unrecognised one.
Modes == {"undefined", "default", "incognito", "private"}

----------------------------------------------------------------------------
(* Errors: <<message, interpolated value>>.                                *)

NoErr == <<"", "">>
ErrBrowserAccess == <<"Cannot access browser before launching browser.", "">>
ErrContextAccess == <<"Cannot access context before launching context.", "">>
ErrPageAccess == <<"Cannot access page before launching browser.", "">>
ErrBrowserHeld == <<"Cannot connect browser before closing previous browser.", "">>
ErrPageHeld == <<"Cannot open page before closing previous page.", "">>
ErrContextHeld == <<"Cannot create context before closing previous context.", "">>
ErrMode(m) == <<"browserContext should be either 'incognito' or 'default'. Received ", m>>
\* A rejection of a promise returned by the client, the file system or stdin.
ErrClient(call) == <<"rejected", call>>

----------------------------------------------------------------------------
(* Tasks.                                                                  *)

\* closeAll releasing the context before the page.
closeAllContextFirst == <<"closeContext", "closePage", "disconnectBrowser">>

\* closeAll disconnecting the browser first.
closeAllDisconnectFirst == <<"disconnectBrowser", "closePage", "closeContext">>

\* closeAll and initAll: the functions awaited, in order.
closeAll == <<"closePage", "closeContext", "disconnectBrowser">>

initAll == <<"connectBrowser", "createContext", "openPage">>

\* The operations, with a resetPage that closes the page and opens none.
BodyResetPageOnlyCloses(op) ==
  CASE op = "setup" -> initAll
    [] op = "teardown" -> closeAll
    [] op = "resetPage" -> <<"closePage">>
    [] op = "resetBrowser" -> closeAll \o initAll
    [] op = "debug" -> <<"debug">>

\* The functions an operation awaits, in order.
Body(op) ==
  CASE op = "setup" -> initAll
    [] op = "teardown" -> closeAll
    [] op = "resetPage" -> <<"closePage", "openPage">>
    [] op = "resetBrowser" -> closeAll \o initAll
    [] op = "debug" -> <<"debug">>

\* A task record:
\*   op    the operation invoked ("none": not invoked yet)
\*   ip    the position in Body(op) of the function the task is in
\*   st    "ready" (about to enter the function at ip), "wait" (awaiting the
\*         promise of the call in last), "done" (returned), "failed" (threw)
\*   res   the promise the operation returned: "pending", "ok", "err"
\*   err   the error the promise rejected with
\*   mk    setup only: the promise of mkdir: "pending", "ok", "err"
\*   last  the last call the task made to the client, and the handle it was made on
NoCall == [call |-> "none", on |-> NoHandle]

NoTask ==
  [op |-> "none", ip |-> 0, st |-> "none", res |-> "none", mk |-> "none",
   last |-> NoCall, err |-> NoErr]

\* A fresh invocation of op.
NewTask(op) ==
  [op |-> op, ip |-> 1, st |-> "ready", res |-> "pending", mk |-> "none",
   last |-> NoCall, err |-> NoErr]

\* Some part of task k is still to run.
Running(k) == k.op # "none" /\ ~(k.st \in {"done", "failed"} /\ k.mk # "pending")

\* The function task k is in.
Cur(k) == Body(k.op)[k.ip]

\* The call task k is waiting for.
Pending(k) == IF k.st = "wait" THEN k.last.call ELSE "none"

\* The handle the pending call was made on.
Target(k) == k.last.on

\* Nothing of task k is left to run.
Finished(k) == ~Running(k)

\* Once nothing of a task is left to run, only its operation, its last call and
\* the outcome of its promise are kept.
Settle(k) ==
  IF Finished(k)
  THEN [NoTask EXCEPT !.op = k.op, !.st = k.st, !.res = k.res, !.err = k.err,
                      !.mk = k.mk, !.last = k.last]
  ELSE k

\* setup's promise resolving with initAll alone.
ResolveWithoutMkdir(k) ==
  IF k.res = "pending" THEN [k EXCEPT !.res = "ok"] ELSE k

\* The operation's promise resolves: setup's is Promise.all of initAll and mkdir.
Resolve(k) ==
  IF k.res = "pending" /\ (k.op = "setup" => k.mk = "ok")
  THEN [k EXCEPT !.res = "ok"]
  ELSE k

\* The function at k.ip returned: the caller's await resumes with the next one.
Return(k) ==
  IF k.ip = Len(Body(k.op))
  THEN Settle(Resolve([k EXCEPT !.st = "done"]))
  ELSE [k EXCEPT !.ip = @ + 1, !.st = "ready"]

\* The function at k.ip threw e: the error propagates through every await.
Throw(k, e) ==
  Settle(IF k.res = "pending"
         THEN [k EXCEPT !.st = "failed", !.res = "err", !.err = e]
         ELSE [k EXCEPT !.st = "failed"])

\* Task k calls the client and awaits the promise.
Call(k, name, on) ==
  [k EXCEPT !.st = "wait", !.last = [call |-> name, on |-> on]]

\* Task k calls the client and gets the result at once.
SyncCall(k, name, on) ==
  [k EXCEPT !.last = [call |-> name, on |-> on]]

----------------------------------------------------------------------------
(* The functions, from entry to their first await (or their return).  Each *)
(* is run by task t, whose record before the step is k, and sets tasks,    *)
(* context, listeners and testTimeout; nothing else changes before the     *)
(* first await.                                                            *)

\* page.off("pageerror", handlePageError)
off(p) == [listeners EXCEPT ![p] = IF @ > 0 THEN @ - 1 ELSE 0]

closePage(t, k) ==
  /\ UNCHANGED <<context, testTimeout>>
  /\ IF page = 0
     THEN /\ tasks' = [tasks EXCEPT ![t] = Return(k)]
          /\ UNCHANGED listeners
     ELSE /\ listeners' = IF puppeteerConfig.exitOnPageError THEN off(page) ELSE listeners
          /\ tasks' = [tasks EXCEPT ![t] = Call(k, "page.close", PageH(page))]

\* closeContext calling close() on the default context as well.
closeContextAlwaysCloses(t, k) ==
  /\ UNCHANGED <<listeners, testTimeout>>
  /\ IF context = NoContext
     THEN /\ tasks' = [tasks EXCEPT ![t] = Return(k)]
          /\ UNCHANGED context
     ELSE /\ tasks' = [tasks EXCEPT ![t] = Call(k, "context.close", context)]
          /\ UNCHANGED context

closeContext(t, k) ==
  /\ UNCHANGED <<listeners, testTimeout>>
  /\ IF context = NoContext
     THEN /\ tasks' = [tasks EXCEPT ![t] = Return(k)]
          /\ UNCHANGED context
     ELSE IF isIncognito(context)
     THEN /\ tasks' = [tasks EXCEPT ![t] = Call(k, "context.close", context)]
          /\ UNCHANGED context
     ELSE /\ context' = NoContext
          /\ tasks' = [tasks EXCEPT ![t] = Return(k)]

\* disconnectBrowser without the early return when no browser is held.
disconnectBrowserUnguarded(t, k) ==
  /\ UNCHANGED <<context, listeners, testTimeout>>
  /\ tasks' = [tasks EXCEPT ![t] = Call(k, "browser.disconnect", BrowserH(browser))]

disconnectBrowser(t, k) ==
  /\ UNCHANGED <<context, listeners, testTimeout>>
  /\ IF browser = 0
     THEN tasks' = [tasks EXCEPT ![t] = Return(k)]
     ELSE tasks' = [tasks EXCEPT ![t] = Call(k, "browser.disconnect", BrowserH(browser))]

\* connectBrowser without the check that no browser is held.
connectBrowserUnchecked(t, k) ==
  /\ UNCHANGED <<context, listeners, testTimeout>>
  /\ tasks' = [tasks EXCEPT ![t] = Call(k, "connect", NoHandle)]

connectBrowser(t, k) ==
  /\ UNCHANGED <<context, listeners, testTimeout>>
  /\ IF browser # 0
     THEN tasks' = [tasks EXCEPT ![t] = Throw(k, ErrBrowserHeld)]
     ELSE tasks' = [tasks EXCEPT ![t] = Call(k, "connect", NoHandle)]

\* global.puppeteerConfig.browserContext ?? "default"
configBrowserContext ==
  IF puppeteerConfig.browserContext = "undefined"
  THEN "default"
  ELSE puppeteerConfig.browserContext

\* createContext falling back to the default context for an unrecognised mode.
createContextLenient(t, k) ==
  /\ UNCHANGED <<listeners, testTimeout>>
  /\ IF context # NoContext
     THEN /\ tasks' = [tasks EXCEPT ![t] = Throw(k, ErrContextHeld)]
          /\ UNCHANGED context
     ELSE IF browser = 0
     THEN /\ tasks' = [tasks EXCEPT ![t] = Throw(k, ErrBrowserAccess)]
          /\ UNCHANGED context
     ELSE IF configBrowserContext = "incognito"
     THEN /\ tasks' = [tasks EXCEPT ![t] =
                         Call(k, "createIncognitoBrowserContext", BrowserH(browser))]
          /\ UNCHANGED context
     ELSE /\ context' = DefaultContext(browser)
          /\ tasks' = [tasks EXCEPT ![t] =
                         Return(SyncCall(k, "defaultBrowserContext", BrowserH(browser)))]

\* createContext creating an isolated context in mode "default" too.
createContextAlwaysIsolated(t, k) ==
  /\ UNCHANGED <<listeners, testTimeout>>
  /\ IF context # NoContext
     THEN /\ tasks' = [tasks EXCEPT ![t] = Throw(k, ErrContextHeld)]
          /\ UNCHANGED context
     ELSE IF browser = 0
     THEN /\ tasks' = [tasks EXCEPT ![t] = Throw(k, ErrBrowserAccess)]
          /\ UNCHANGED context
     ELSE IF configBrowserContext \in {"default", "incognito"}
     THEN /\ tasks' = [tasks EXCEPT ![t] =
                         Call(k, "createIncognitoBrowserContext", BrowserH(browser))]
          /\ UNCHANGED context
     ELSE /\ tasks' = [tasks EXCEPT ![t] = Throw(k, ErrMode(configBrowserContext))]
          /\ UNCHANGED context

createContext(t, k) ==
  /\ UNCHANGED <<listeners, testTimeout>>
  /\ IF context # NoContext
     THEN /\ tasks' = [tasks EXCEPT ![t] = Throw(k, ErrContextHeld)]
          /\ UNCHANGED context
     ELSE IF browser = 0
     THEN /\ tasks' = [tasks EXCEPT ![t] = Throw(k, ErrBrowserAccess)]
          /\ UNCHANGED context
     ELSE IF configBrowserContext = "default"
     THEN /\ context' = DefaultContext(browser)
          /\ tasks' = [tasks EXCEPT ![t] =
                         Return(SyncCall(k, "defaultBrowserContext", BrowserH(browser)))]
     ELSE IF configBrowserContext = "incognito"
     THEN /\ tasks' = [tasks EXCEPT ![t] =
                         Call(k, "createIncognitoBrowserContext", BrowserH(browser))]
          /\ UNCHANGED context
     ELSE /\ tasks' = [tasks EXCEPT ![t] = Throw(k, ErrMode(configBrowserContext))]
          /\ UNCHANGED context

\* openPage taking global.context without getContext's check.
openPageUncheckedContext(t, k) ==
  /\ UNCHANGED <<context, listeners, testTimeout>>
  /\ IF page # 0
     THEN tasks' = [tasks EXCEPT ![t] = Throw(k, ErrPageHeld)]
     ELSE tasks' = [tasks EXCEPT ![t] = Call(k, "newPage", context)]

openPage(t, k) ==
  /\ UNCHANGED <<context, listeners, testTimeout>>
  /\ IF page # 0
     THEN tasks' = [tasks EXCEPT ![t] = Throw(k, ErrPageHeld)]
     ELSE IF context = NoContext
     THEN tasks' = [tasks EXCEPT ![t] = Throw(k, ErrContextAccess)]
     ELSE tasks' = [tasks EXCEPT ![t] = Call(k, "newPage", context)]

\* The timeout jestPuppeteer.debug sets: 4 days, in ms.
DebugTimeout == 345600000

debug(t, k) ==
  /\ UNCHANGED <<context, listeners>>
  /\ testTimeout' = DebugTimeout
  /\ IF page = 0
     THEN tasks' = [tasks EXCEPT ![t] = Throw(k, ErrPageAccess)]
     ELSE tasks' = [tasks EXCEPT ![t] = Call(k, "evaluate", PageH(page))]

\* Task t, with record k, enters the function it is at.
Enter(t, k) ==
  CASE Cur(k) = "closePage" -> closePage(t, k)
    [] Cur(k) = "closeContext" -> closeContext(t, k)
    [] Cur(k) = "disconnectBrowser" -> disconnectBrowser(t, k)
    [] Cur(k) = "connectBrowser" -> connectBrowser(t, k)
    [] Cur(k) = "createContext" -> createContext(t, k)
    [] Cur(k) = "openPage" -> openPage(t, k)
    [] Cur(k) = "debug" -> debug(t, k)

----------------------------------------------------------------------------
(* Invocations.  Task t is the t-th operation invoked.  An invocation runs *)
(* the operation up to its first await.                                    *)

\* The step dispatches no page error.
Quiet == emitted' = NoEmit

CanStart(t) ==
  /\ Quiet
  /\ tasks[t].op = "none"
  /\ \A u \in Tasks : u < t => tasks[u].op # "none"
  /\ overlapped' = IF \E u \in Tasks : Running(tasks[u])
                   THEN overlapped \cup {t} \cup {u \in Tasks : Running(tasks[u])}
                   ELSE overlapped

\* The promises of the operations invoked before the t-th are all settled.
Awaited(t) == \A u \in Tasks : u < t => tasks[u].res # "pending"

\* PuppeteerEnvironment.setup, from the moment readConfig() has resolved.
setup(t) ==
  /\ CanStart(t)
  /\ jestPuppeteer' = TRUE
  /\ Enter(t, [NewTask("setup") EXCEPT !.mk = "pending"])
  /\ UNCHANGED <<browser, page, puppeteerConfig, client>>

\* PuppeteerEnvironment.teardown
teardown(t) ==
  /\ CanStart(t)
  /\ Enter(t, NewTask("teardown"))
  /\ UNCHANGED <<browser, page, puppeteerConfig, jestPuppeteer, client>>

\* global.jestPuppeteer.resetPage
resetPage(t) ==
  /\ CanStart(t)
  /\ jestPuppeteer
  /\ Enter(t, NewTask("resetPage"))
  /\ UNCHANGED <<browser, page, puppeteerConfig, jestPuppeteer, client>>

\* global.jestPuppeteer.resetBrowser
resetBrowser(t) ==
  /\ CanStart(t)
  /\ jestPuppeteer
  /\ Enter(t, NewTask("resetBrowser"))
  /\ UNCHANGED <<browser, page, puppeteerConfig, jestPuppeteer, client>>

\* global.jestPuppeteer.debug
startDebug(t) ==
  /\ CanStart(t)
  /\ jestPuppeteer
  /\ Enter(t, NewTask("debug"))
  /\ UNCHANGED <<browser, page, puppeteerConfig, jestPuppeteer, client>>

\* An await on a function that returned resumes: task t enters the next one.
Resume(t) ==
  /\ tasks[t].st = "ready"
  /\ Enter(t, tasks[t])
  /\ Quiet
  /\ UNCHANGED <<browser, page, puppeteerConfig, jestPuppeteer, client, overlapped>>

----------------------------------------------------------------------------
(* Settled promises: the code after each await of a client call.  ok says  *)
(* whether the promise resolved or rejected.  The client, the file system  *)
(* and stdin settle their promises from the event loop, which runs the     *)
(* continuations that are already due before it delivers the next          *)
(* completion.                                                             *)

\* No task is about to resume from an await on a function that has returned.
Drained == \A u \in Tasks : tasks[u].st # "ready"

\* closePage clearing global.page whether or not the close succeeded.
AfterPageCloseClearsAnyway(t, ok) ==
  /\ Drained
  /\ Pending(tasks[t]) = "page.close"
  /\ page' = 0
  /\ IF ok
     THEN /\ pages' = pages \ {Target(tasks[t])[2]}
          /\ tasks' = [tasks EXCEPT ![t] = Return(@)]
     ELSE /\ tasks' = [tasks EXCEPT ![t] = Throw(@, ErrClient("page.close"))]
          /\ UNCHANGED pages
  /\ UNCHANGED overlapped /\ Quiet
  /\ UNCHANGED <<browser, context, puppeteerConfig, jestPuppeteer, testTimeout,
                 connected, incognitos, listeners, nextB, nextC, nextP>>

\* closePage after await global.page.close(...)
AfterPageClose(t, ok) ==
  /\ Drained
  /\ Pending(tasks[t]) = "page.close"
  /\ IF ok
     THEN /\ pages' = pages \ {Target(tasks[t])[2]}
          /\ page' = 0
          /\ tasks' = [tasks EXCEPT ![t] = Return(@)]
     ELSE /\ tasks' = [tasks EXCEPT ![t] = Throw(@, ErrClient("page.close"))]
          /\ UNCHANGED <<pages, page>>
  /\ UNCHANGED overlapped /\ Quiet
  /\ UNCHANGED <<browser, context, puppeteerConfig, jestPuppeteer, testTimeout,
                 connected, incognitos, listeners, nextB, nextC, nextP>>

\* closeContext keeping global.context after the close.
AfterContextCloseKeepsContext(t, ok) ==
  /\ Drained
  /\ Pending(tasks[t]) = "context.close"
  /\ IF ok
     THEN /\ incognitos' = incognitos \ {Target(tasks[t])[2]}
          /\ tasks' = [tasks EXCEPT ![t] = Return(@)]
     ELSE /\ tasks' = [tasks EXCEPT ![t] = Throw(@, ErrClient("context.close"))]
          /\ UNCHANGED incognitos
  /\ UNCHANGED <<context, overlapped>> /\ Quiet
  /\ UNCHANGED <<browser, page, puppeteerConfig, jestPuppeteer, testTimeout,
                 connected, pages, listeners, nextB, nextC, nextP>>

\* closeContext after await global.context.close()
AfterContextClose(t, ok) ==
  /\ Drained
  /\ Pending(tasks[t]) = "context.close"
  /\ IF ok
     THEN /\ incognitos' = incognitos \ {Target(tasks[t])[2]}
          /\ context' = NoContext
          /\ tasks' = [tasks EXCEPT ![t] = Return(@)]
     ELSE /\ tasks' = [tasks EXCEPT ![t] = Throw(@, ErrClient("context.close"))]
          /\ UNCHANGED <<incognitos, context>>
  /\ UNCHANGED overlapped /\ Quiet
  /\ UNCHANGED <<browser, page, puppeteerConfig, jestPuppeteer, testTimeout,
                 connected, pages, listeners, nextB, nextC, nextP>>

\* disconnectBrowser keeping global.browser after the disconnection.
AfterDisconnectKeepsBrowser(t, ok) ==
  /\ Drained
  /\ Pending(tasks[t]) = "browser.disconnect"
  /\ IF ok
     THEN /\ connected' = connected \ {Target(tasks[t])[2]}
          /\ tasks' = [tasks EXCEPT ![t] = Return(@)]
     ELSE /\ tasks' = [tasks EXCEPT ![t] = Throw(@, ErrClient("browser.disconnect"))]
          /\ UNCHANGED connected
  /\ UNCHANGED <<browser, overlapped>> /\ Quiet
  /\ UNCHANGED <<context, page, puppeteerConfig, jestPuppeteer, testTimeout,
                 incognitos, pages, listeners, nextB, nextC, nextP>>

\* disconnectBrowser after await global.browser.disconnect()
AfterDisconnect(t, ok) ==
  /\ Drained
  /\ Pending(tasks[t]) = "browser.disconnect"
  /\ IF ok
     THEN /\ connected' = connected \ {Target(tasks[t])[2]}
          /\ browser' = 0
          /\ tasks' = [tasks EXCEPT ![t] = Return(@)]
     ELSE /\ tasks' = [tasks EXCEPT ![t] = Throw(@, ErrClient("browser.disconnect"))]
          /\ UNCHANGED <<connected, browser>>
  /\ UNCHANGED overlapped /\ Quiet
  /\ UNCHANGED <<context, page, puppeteerConfig, jestPuppeteer, testTimeout,
                 incognitos, pages, listeners, nextB, nextC, nextP>>

\* connectBrowser dropping the connection it awaited instead of holding it.
AfterConnectDropsBrowser(t, ok) ==
  /\ Drained
  /\ Pending(tasks[t]) = "connect"
  /\ IF ok
     THEN /\ connected' = connected \cup {nextB}
          /\ nextB' = nextB + 1
          /\ tasks' = [tasks EXCEPT ![t] = Return(@)]
     ELSE /\ tasks' = [tasks EXCEPT ![t] = Throw(@, ErrClient("connect"))]
          /\ UNCHANGED <<connected, nextB>>
  /\ UNCHANGED <<browser, overlapped>> /\ Quiet
  /\ UNCHANGED <<context, page, puppeteerConfig, jestPuppeteer, testTimeout,
                 incognitos, pages, listeners, nextC, nextP>>

\* connectBrowser after await connectBrowserFromWorker(global.puppeteerConfig)
AfterConnect(t, ok) ==
  /\ Drained
  /\ Pending(tasks[t]) = "connect"
  /\ IF ok
     THEN /\ connected' = connected \cup {nextB}
          /\ nextB' = nextB + 1
          /\ browser' = nextB
          /\ tasks' = [tasks EXCEPT ![t] = Return(@)]
     ELSE /\ tasks' = [tasks EXCEPT ![t] = Throw(@, ErrClient("connect"))]
          /\ UNCHANGED <<connected, nextB, browser>>
  /\ UNCHANGED overlapped /\ Quiet
  /\ UNCHANGED <<context, page, puppeteerConfig, jestPuppeteer, testTimeout,
                 incognitos, pages, listeners, nextC, nextP>>

\* createContext after await browser.createIncognitoBrowserContext()
AfterCreateIncognito(t, ok) ==
  /\ Drained
  /\ Pending(tasks[t]) = "createIncognitoBrowserContext"
  /\ IF ok
     THEN /\ incognitos' = incognitos \cup {nextC}
          /\ nextC' = nextC + 1
          /\ context' = Incognito(nextC)
          /\ tasks' = [tasks EXCEPT ![t] = Return(@)]
     ELSE /\ tasks' = [tasks EXCEPT ![t] =
                         Throw(@, ErrClient("createIncognitoBrowserContext"))]
          /\ UNCHANGED <<incognitos, nextC, context>>
  /\ UNCHANGED overlapped /\ Quiet
  /\ UNCHANGED <<browser, page, puppeteerConfig, jestPuppeteer, testTimeout,
                 connected, pages, listeners, nextB, nextP>>

\* openPage not registering handlePageError on the page it opens.
AfterNewPageNoListener(t, ok) ==
  /\ Drained
  /\ Pending(tasks[t]) = "newPage"
  /\ IF ok
     THEN /\ pages' = pages \cup {nextP}
          /\ nextP' = nextP + 1
          /\ listeners' = Append(listeners, 0)
          /\ page' = nextP
          /\ tasks' = [tasks EXCEPT ![t] = Return(@)]
     ELSE /\ tasks' = [tasks EXCEPT ![t] = Throw(@, ErrClient("newPage"))]
          /\ UNCHANGED <<pages, nextP, listeners, page>>
  /\ UNCHANGED overlapped /\ Quiet
  /\ UNCHANGED <<browser, context, puppeteerConfig, jestPuppeteer, testTimeout,
                 connected, incognitos, nextB, nextC>>

\* openPage after await getContext(global).newPage()
AfterNewPage(t, ok) ==
  /\ Drained
  /\ Pending(tasks[t]) = "newPage"
  /\ IF ok
     THEN /\ pages' = pages \cup {nextP}
          /\ nextP' = nextP + 1
          /\ listeners' = Append(listeners, IF puppeteerConfig.exitOnPageError THEN 1 ELSE 0)
          /\ page' = nextP
          /\ tasks' = [tasks EXCEPT ![t] = Return(@)]
     ELSE /\ tasks' = [tasks EXCEPT ![t] = Throw(@, ErrClient("newPage"))]
          /\ UNCHANGED <<pages, nextP, listeners, page>>
  /\ UNCHANGED overlapped /\ Quiet
  /\ UNCHANGED <<browser, context, puppeteerConfig, jestPuppeteer, testTimeout,
                 connected, incognitos, nextB, nextC>>

\* debug returning after the evaluation, without blockStdin().
AfterEvaluateReturns(t, ok) ==
  /\ Drained
  /\ Pending(tasks[t]) = "evaluate"
  /\ IF ok
     THEN tasks' = [tasks EXCEPT ![t] = Return(@)]
     ELSE tasks' = [tasks EXCEPT ![t] = Throw(@, ErrClient("evaluate"))]
  /\ UNCHANGED overlapped /\ Quiet
  /\ UNCHANGED <<browser, context, page, puppeteerConfig, jestPuppeteer, testTimeout,
                 client, listeners>>

\* debug after await getPage(global).evaluate(...): return blockStdin()
AfterEvaluate(t, ok) ==
  /\ Drained
  /\ Pending(tasks[t]) = "evaluate"
  /\ IF ok
     THEN tasks' = [tasks EXCEPT ![t] = Call(@, "blockStdin", NoHandle)]
     ELSE tasks' = [tasks EXCEPT ![t] = Throw(@, ErrClient("evaluate"))]
  /\ UNCHANGED overlapped /\ Quiet
  /\ UNCHANGED <<browser, context, page, puppeteerConfig, jestPuppeteer, testTimeout,
                 client, listeners>>

\* The promise of blockStdin() resolves: the user resumed.
AfterStdin(t) ==
  /\ Drained
  /\ Pending(tasks[t]) = "blockStdin"
  /\ tasks' = [tasks EXCEPT ![t] = Return(@)]
  /\ UNCHANGED overlapped /\ Quiet
  /\ UNCHANGED <<browser, context, page, puppeteerConfig, jestPuppeteer, testTimeout,
                 client, listeners>>

\* The promise of mkdir(...) settles; Promise.all resolves or rejects with it.
AfterMkdir(t, ok) ==
  /\ Drained
  /\ tasks[t].mk = "pending"
  /\ IF ok
     THEN tasks' = [tasks EXCEPT ![t] =
                      IF @.st = "done"
                      THEN Settle(Resolve([@ EXCEPT !.mk = "ok"]))
                      ELSE Settle([@ EXCEPT !.mk = "ok"])]
     ELSE tasks' = [tasks EXCEPT ![t] =
                      IF @.res = "pending"
                      THEN Settle([@ EXCEPT !.mk = "err", !.res = "err",
                                            !.err = ErrClient("mkdir")])
                      ELSE Settle([@ EXCEPT !.mk = "err"])]
  /\ UNCHANGED overlapped /\ Quiet
  /\ UNCHANGED <<browser, context, page, puppeteerConfig, jestPuppeteer, testTimeout,
                 client, listeners>>

\* The open page p emits "pageerror": handlePageError runs once per
\* registration on p, each run sending the process one uncaughtException.
handlePageError(p) ==
  /\ p \in pages
  /\ emitted' = <<p, listeners[p]>>
  /\ UNCHANGED <<browser, context, page, puppeteerConfig, jestPuppeteer, testTimeout,
                 tasks, client, listeners, overlapped>>

----------------------------------------------------------------------------

Init ==
  /\ browser = 0
  /\ context = NoContext
  /\ page = 0
  /\ puppeteerConfig \in [browserContext : Modes, exitOnPageError : BOOLEAN]
  /\ jestPuppeteer = FALSE
  /\ testTimeout = 0
  /\ tasks = [t \in Tasks |-> NoTask]
  /\ connected = {}
  /\ incognitos = {}
  /\ pages = {}
  /\ listeners = <<>>
  /\ nextB = 1
  /\ nextC = 1
  /\ nextP = 1
  /\ overlapped = {}
  /\ emitted = NoEmit

\* The steps of the tasks in flight.
Run(t) ==
    \/ Resume(t)
    \/ AfterStdin(t)
    \/ \E ok \in BOOLEAN :
         \/ AfterPageClose(t, ok)
         \/ AfterContextClose(t, ok)
         \/ AfterDisconnect(t, ok)
         \/ AfterConnect(t, ok)
         \/ AfterCreateIncognito(t, ok)
         \/ AfterNewPage(t, ok)
         \/ AfterEvaluate(t, ok)
         \/ AfterMkdir(t, ok)

\* Operations are invoked at any time, also while earlier ones are in flight.
Next ==
  \/ \E t \in Tasks :
       \/ setup(t)
       \/ teardown(t)
       \/ resetPage(t)
       \/ resetBrowser(t)
       \/ startDebug(t)
       \/ Run(t)
  \/ \E p \in pages : handlePageError(p)

Spec == Init /\ [][Next]_vars

\* Each operation is invoked once the promises of the earlier ones have settled,
\* as the test runner does with setup and teardown and as test code that awaits
\* the helpers does.
SeqNext ==
  \/ \E t \in Tasks :
       \/ Awaited(t) /\ setup(t)
       \/ Awaited(t) /\ teardown(t)
       \/ Awaited(t) /\ resetPage(t)
       \/ Awaited(t) /\ resetBrowser(t)
       \/ Awaited(t) /\ startDebug(t)
       \/ Run(t)
  \/ \E p \in pages : handlePageError(p)

SeqSpec == Init /\ [][SeqNext]_vars

\* The configured mode is neither "default" (or absent) nor "incognito".
UnrecognisedMode == configBrowserContext \notin {"default", "incognito"}

\* The continuations of task t when the promise it awaits resolves.
Progress(t) ==
  \/ Resume(t)
  \/ AfterPageClose(t, TRUE)
  \/ AfterContextClose(t, TRUE)
  \/ AfterDisconnect(t, TRUE)
  \/ AfterConnect(t, TRUE)
  \/ AfterCreateIncognito(t, TRUE)
  \/ AfterNewPage(t, TRUE)
  \/ AfterEvaluate(t, TRUE)
  \/ AfterMkdir(t, TRUE)

\* The environment with a recognised mode, operations invoked one after the
\* other, and every call to the client (and mkdir) resolving.
LiveInit == Init /\ ~UnrecognisedMode

LiveNext ==
  \/ \E t \in Tasks :
       \/ Awaited(t) /\ setup(t)
       \/ Awaited(t) /\ teardown(t)
       \/ Awaited(t) /\ resetPage(t)
       \/ Awaited(t) /\ resetBrowser(t)
       \/ Awaited(t) /\ startDebug(t)
       \/ Progress(t)
       \/ AfterStdin(t)
  \/ \E p \in pages : handlePageError(p)

\* Every call eventually returns, and a continuation that is due eventually
\* runs; nothing obliges the user to release standard input.
LiveSpec ==
  LiveInit /\ [][LiveNext]_vars /\ \A t \in Tasks : WF_vars(Progress(t))

----------------------------------------------------------------------------
(* The states of the lifecycle.                                            *)

Idle == browser = 0 /\ context = NoContext /\ page = 0
BrowserConnected == browser # 0 /\ context = NoContext /\ page = 0
ContextCreated == browser # 0 /\ context # NoContext /\ page = 0
PageOpen == browser # 0 /\ context # NoContext /\ page # 0

refs == <<browser, context, page>>

\* Task t is invoked or takes a step.
Step(t) == tasks'[t] # tasks[t]

\* Some part of task t is still to run.
InFlight(t) == Running(tasks[t])

----------------------------------------------------------------------------
(* C1: a held page reference implies a held context reference, and a held  *)
(* context reference implies a held browser reference, in every reachable  *)
(* state, also when operations overlap.                                    *)
C1_RefsNested ==
  /\ page # 0 => context # NoContext
  /\ context # NoContext => browser # 0

(* C2: at most one connection, one isolated context and one page acquired  *)
(* by the environment are live (acquired and not yet released) at any time. *)
C2_AtMostOneLive ==
  /\ Cardinality(pages) <= 1
  /\ Cardinality(connected) <= 1
  /\ Cardinality(incognitos) <= 1

----------------------------------------------------------------------------
(* Notions used to state the order of a task's steps.                      *)

\* The function the step of task t runs in.
StepFn(t) ==
  IF tasks[t].op = "none" THEN Body(tasks'[t].op)[1] ELSE Cur(tasks[t])

\* Task t makes a call to the client in this step.
Calls(t) == tasks'[t].last # tasks[t].last

\* The step is the settling of the mkdir promise of task t.
MkdirSettles(t) == tasks[t].mk = "pending" /\ tasks'[t].mk # "pending"

\* Task t, invoked in this step or resuming from an await, enters a function.
Enters(t) ==
  /\ Step(t)
  /\ tasks[t].op = "none" \/ tasks[t].st = "ready"
  /\ ~MkdirSettles(t)

\* Task t enters function f in this step.
Entering(t, f) == Enters(t) /\ StepFn(t) = f

\* The step of task t throws e without calling the client and without changing
\* a reference or anything the client holds.  (The promise of a setup that has
\* already rejected keeps its first error.)
Raises(t, e) ==
  /\ tasks'[t].st = "failed"
  /\ tasks[t].res # "err" => tasks'[t].res = "err" /\ tasks'[t].err = e
  /\ ~Calls(t)
  /\ refs' = refs
  /\ client' = client

\* The step of task t returns without an error, without calling the client and
\* without changing a reference, a listener or anything the client holds.
NoOp(t) ==
  /\ tasks'[t].st \in {"ready", "done"}
  /\ tasks'[t].res = IF tasks'[t].st = "done" /\ tasks'[t].op # "setup"
                     THEN "ok" ELSE "pending"
  /\ ~Calls(t)
  /\ refs' = refs
  /\ client' = client
  /\ listeners' = listeners

\* Since task t was invoked, no other task has had anything left to run.
Alone(t) == t \notin overlapped'

\* The position of a client call in closeAll followed by initAll.
Rank(call) ==
  CASE call = "none" -> 0
    [] call = "page.close" -> 1
    [] call = "context.close" -> 2
    [] call = "browser.disconnect" -> 3
    [] call = "connect" -> 4
    [] call \in {"defaultBrowserContext", "createIncognitoBrowserContext"} -> 5
    [] call = "newPage" -> 6
    [] call = "evaluate" -> 7
    [] call = "blockStdin" -> 8

\* The call c, made earlier, has completed: what it released is released.
Completed(c) ==
  /\ c.call = "page.close" => c.on[2] \notin pages
  /\ c.call = "context.close" => c.on[2] \notin incognitos
  /\ c.call = "browser.disconnect" => c.on[2] \notin connected

\* 0..3 for Idle, BrowserConnected, ContextCreated, PageOpen; -1 otherwise.
Level ==
  CASE Idle -> 0
    [] BrowserConnected -> 1
    [] ContextCreated -> 2
    [] PageOpen -> 3
    [] OTHER -> -1

LevelNext ==
  CASE Idle' -> 0
    [] BrowserConnected' -> 1
    [] ContextCreated' -> 2
    [] PageOpen' -> 3
    [] OTHER -> -1

Range(f) == {f[i] : i \in DOMAIN f}

(* C3: acquisition and release are strictly ordered and mirror each other. *)
(* Every task makes its client calls in the order page close, context      *)
(* close, disconnect, connect, context creation, page open, each only once *)
(* the previous one has completed, and a task running initAll skips none   *)
(* of connect, context creation, page open.  A task that runs alone from a *)
(* state of the lifecycle moves it one state at a time: forward through    *)
(* Idle, BrowserConnected, ContextCreated, PageOpen in the functions of    *)
(* initAll, backward in the functions of closeAll.                         *)
C3_StepOrder(t) ==
  /\ Calls(t) =>
       /\ Rank(tasks[t].last.call) < Rank(tasks'[t].last.call)
       /\ tasks[t].st # "wait" \/ tasks'[t].last.call = "blockStdin"
       /\ Completed(tasks[t].last)
       /\ tasks'[t].op \in {"setup", "resetBrowser"} /\ Rank(tasks'[t].last.call) \in {5, 6}
            => Rank(tasks[t].last.call) = Rank(tasks'[t].last.call) - 1
  /\ Alone(t) /\ Level # -1 =>
       /\ StepFn(t) \in Range(initAll) => LevelNext \in {Level, Level + 1}
       /\ StepFn(t) \in Range(closeAll) => LevelNext \in {Level, Level - 1}

C3_Ordered == [][\A t \in Tasks : Step(t) => C3_StepOrder(t)]_vars

\* A setup has run to PageOpen and a teardown has closed the page and the
\* isolated context and awaits the disconnection.
C3_Witness ==
  /\ tasks[1].op = "setup" /\ tasks[1].res = "ok"
  /\ tasks[2].op = "teardown" /\ Pending(tasks[2]) = "browser.disconnect"
  /\ nextP = 2 /\ pages = {}
  /\ nextC = 2 /\ incognitos = {}
  /\ BrowserConnected

(* C4: acquiring a resource that is already held fails: connectBrowser    *)
(* with a browser held, createContext with a context held and openPage     *)
(* with a page held each raise their error before any call to the client   *)
(* and leave the browser, context and page references unchanged.           *)
C4_Step(t) ==
  /\ Entering(t, "connectBrowser") /\ browser # 0 => Raises(t, ErrBrowserHeld)
  /\ Entering(t, "createContext") /\ context # NoContext => Raises(t, ErrContextHeld)
  /\ Entering(t, "openPage") /\ page # 0 => Raises(t, ErrPageHeld)

C4_AcquireHeldFails == [][\A t \in Tasks : C4_Step(t)]_vars

\* A resetBrowser found a page held when it came to open one.
C4_Witness ==
  \E t \in Tasks :
    /\ tasks[t].op = "resetBrowser"
    /\ tasks[t].err = ErrPageHeld
    /\ page # 0

(* C5: accessing a resource before it is acquired fails: createContext     *)
(* with no browser held, openPage with no context held and debug with no   *)
(* page held each raise an error (the access error, unless the function's  *)
(* own resource is held, which it reports first), make no call to the      *)
(* client and leave the browser, context and page references unchanged.    *)
C5_Step(t) ==
  /\ Entering(t, "createContext") /\ browser = 0 =>
       Raises(t, IF context # NoContext THEN ErrContextHeld ELSE ErrBrowserAccess)
  /\ Entering(t, "openPage") /\ context = NoContext =>
       Raises(t, IF page # 0 THEN ErrPageHeld ELSE ErrContextAccess)
  /\ Entering(t, "debug") /\ page = 0 => Raises(t, ErrPageAccess)

C5_AccessUnheldFails == [][\A t \in Tasks : C5_Step(t)]_vars

\* A resetPage found no context to open its page on.
C5_Witness ==
  \E t \in Tasks :
    /\ tasks[t].op = "resetPage"
    /\ tasks[t].err = ErrContextAccess
    /\ context = NoContext

(* C6: releasing an unheld resource is a no-op: closePage with no page     *)
(* held, closeContext with no context held and disconnectBrowser with no   *)
(* browser held raise no error, make no call to the client and leave all   *)
(* references unchanged; so every function a teardown enters in the Idle   *)
(* state changes nothing, and the teardown succeeds.                       *)
C6_Step(t) ==
  /\ Entering(t, "closePage") /\ page = 0 => NoOp(t)
  /\ Entering(t, "closeContext") /\ context = NoContext => NoOp(t)
  /\ Entering(t, "disconnectBrowser") /\ browser = 0 => NoOp(t)
  /\ Enters(t) /\ tasks'[t].op = "teardown" /\ Idle =>
       /\ NoOp(t)
       /\ StepFn(t) = "disconnectBrowser" => tasks'[t].res = "ok"

C6_ReleaseUnheldNoOp == [][\A t \in Tasks : C6_Step(t)]_vars

\* Two teardowns have succeeded in the Idle state without a call to the client.
C6_Witness ==
  /\ tasks[1].op = "teardown" /\ tasks[1].res = "ok" /\ tasks[1].last = NoCall
  /\ tasks[2].op = "teardown" /\ tasks[2].res = "ok" /\ tasks[2].last = NoCall
  /\ overlapped = {}
  /\ Idle

----------------------------------------------------------------------------
(* C7: a full setup followed by a teardown, every client call of both      *)
(* succeeding, returns the environment to its initial state: the browser,  *)
(* context and page references are cleared and every connection, isolated  *)
(* context and page acquired during the setup has been released.           *)

\* The first operation was a setup, the second a teardown invoked once the
\* setup's promise had resolved, both promises resolved, nothing else invoked.
SetupThenTeardown ==
  /\ tasks[1].op = "setup" /\ tasks[1].res = "ok"
  /\ tasks[2].op = "teardown" /\ tasks[2].res = "ok"
  /\ \A u \in Tasks : u > 2 => tasks[u].op = "none"

C7_SetupTeardownRestores ==
  SetupThenTeardown =>
    /\ Idle
    /\ connected = {} /\ incognitos = {} /\ pages = {}

\* The setup acquired a connection, an isolated context and a page, and the
\* teardown has resolved.
C7_Witness ==
  /\ SetupThenTeardown
  /\ nextB = 2 /\ nextC = 2 /\ nextP = 2
  /\ tasks[2].last.call = "browser.disconnect"

----------------------------------------------------------------------------
\* In an unrecognised mode no context and no page reference is ever held.
NeverContext == UnrecognisedMode => context' = NoContext /\ page' = 0

(* C8: createContext with a configured mode other than "default" or        *)
(* "incognito" fails with the error whose message names the received       *)
(* value, without a call to the client and without setting a context       *)
(* reference; in such a mode no context and no page is ever held, so the   *)
(* environment never reaches ContextCreated or PageOpen.                   *)
C8_Step(t) ==
  Entering(t, "createContext") /\ UnrecognisedMode =>
    Raises(t, ErrMode(puppeteerConfig.browserContext))

C8_ModeError == [][(\A t \in Tasks : C8_Step(t)) /\ NeverContext]_vars

\* A setup in mode "private" has connected and failed in createContext with the
\* error naming "private".
C8_Witness ==
  /\ tasks[1].op = "setup"
  /\ tasks[1].err = ErrMode("private")
  /\ tasks[1].last.call = "connect"
  /\ BrowserConnected

----------------------------------------------------------------------------
\* The call task t awaited before the step has resolved in the step.
Resolved(t, call) ==
  /\ Pending(tasks[t]) = call
  /\ tasks'[t].st \in {"ready", "done"}

(* C9: createContext derives the context according to the configured mode. *)
(* With mode "default" or with no mode configured it holds, at once, the   *)
(* default context of the held browser, and no isolated context is ever    *)
(* created.  With mode "incognito" it asks the held browser for an         *)
(* isolated context and holds the one newly created when the call          *)
(* resolves; the browser asked is still the held one then if no other      *)
(* operation has overlapped.  A held context is always of the kind the     *)
(* mode prescribes.                                                        *)
C9_Step(t) ==
  /\ Entering(t, "createContext") /\ context = NoContext /\ browser # 0
       /\ configBrowserContext = "default" =>
         /\ context' = DefaultContext(browser)
         /\ tasks'[t].last = [call |-> "defaultBrowserContext", on |-> BrowserH(browser)]
         /\ tasks'[t].st = "ready"
         /\ client' = client
  /\ Entering(t, "createContext") /\ context = NoContext /\ browser # 0
       /\ configBrowserContext = "incognito" =>
         /\ tasks'[t].last = [call |-> "createIncognitoBrowserContext",
                              on |-> BrowserH(browser)]
         /\ tasks'[t].st = "wait"
         /\ context' = context
         /\ client' = client
  /\ Resolved(t, "createIncognitoBrowserContext") =>
         /\ isIncognito(context')
         /\ context'[2] \notin incognitos
         /\ incognitos' = incognitos \cup {context'[2]}
         /\ Alone(t) => Target(tasks[t]) = BrowserH(browser')

C9_Kind ==
  /\ configBrowserContext = "default" => incognitos' = {} /\ ~isIncognito(context')
  /\ configBrowserContext = "incognito" => context'[1] # "default"

C9_ContextPerMode == [][(\A t \in Tasks : C9_Step(t)) /\ C9_Kind]_vars

\* With no mode configured a setup holds the default context of its browser
\* and has created no isolated context.
C9_WitnessDefault ==
  /\ puppeteerConfig.browserContext = "undefined"
  /\ tasks[1].op = "setup" /\ tasks[1].res = "ok"
  /\ browser # 0 /\ context = DefaultContext(browser)
  /\ nextC = 1

\* In mode "incognito" a resetBrowser that followed a setup holds the second
\* isolated context, the first being closed.
C9_Witness ==
  /\ puppeteerConfig.browserContext = "incognito"
  /\ tasks[2].op = "resetBrowser" /\ tasks[2].res = "ok"
  /\ context = Incognito(2) /\ incognitos = {2}
  /\ browser = 2

----------------------------------------------------------------------------
(* C10: closeContext never calls close on the default context but clears   *)
(* the context reference at once; for an isolated context it makes exactly *)
(* one close call, on that context, and the reference is cleared only when *)
(* the call has resolved (it stays if the call rejects).  No task ever     *)
(* calls close on a default context, and in mode "default" no task calls   *)
(* close on a context at all.                                              *)
C10_Step(t) ==
  /\ Entering(t, "closeContext") /\ context # NoContext /\ ~isIncognito(context) =>
         /\ ~Calls(t)
         /\ context' = NoContext
         /\ tasks'[t].st = "ready"
         /\ client' = client
  /\ Entering(t, "closeContext") /\ isIncognito(context) =>
         /\ tasks'[t].last = [call |-> "context.close", on |-> context]
         /\ tasks'[t].st = "wait"
         /\ context' = context
         /\ client' = client
  /\ Pending(tasks[t]) = "context.close" /\ Step(t) =>
         /\ ~Calls(t)
         /\ IF Resolved(t, "context.close")
            THEN context' = NoContext /\ Target(tasks[t])[2] \notin incognitos'
            ELSE context' = context /\ tasks'[t].st = "failed"
  /\ Calls(t) /\ tasks'[t].last.call = "context.close" =>
         /\ isIncognito(tasks'[t].last.on)
         /\ configBrowserContext = "incognito"

C10_DefaultNeverClosed == [][\A t \in Tasks : C10_Step(t)]_vars

\* In mode "default" a teardown that followed a setup has closed the page,
\* cleared the context reference without a call and awaits the disconnection.
C10_Witness ==
  /\ configBrowserContext = "default"
  /\ tasks[1].op = "setup" /\ tasks[1].res = "ok"
  /\ tasks[2].op = "teardown" /\ Pending(tasks[2]) = "browser.disconnect"
  /\ context = NoContext /\ page = 0 /\ pages = {}
  /\ browser # 0

----------------------------------------------------------------------------
\* The first operation was a setup and the second, invoked once the setup's
\* promise had resolved, was op; both promises resolved, nothing else invoked.
SetupThen(op) ==
  /\ tasks[1].op = "setup" /\ tasks[1].res = "ok"
  /\ tasks[2].op = op /\ tasks[2].res = "ok"
  /\ \A u \in Tasks : u > 2 => tasks[u].op = "none"

\* The context a successful initAll holds on connection b, the c-th context
\* creation of the run.
ContextOf(b, c) ==
  IF configBrowserContext = "incognito" THEN Incognito(c) ELSE DefaultContext(b)

(* C11: resetPage called in the PageOpen state a setup leaves (page 1 of   *)
(* connection 1), all client calls succeeding, ends in PageOpen with a     *)
(* page different from the previous one (page 2), the previous page being  *)
(* closed, and with the browser and the context references unchanged.      *)
C11_ResetPageRenewsPage ==
  SetupThen("resetPage") =>
    /\ PageOpen
    /\ page = 2 /\ pages = {2}
    /\ browser = 1 /\ connected = {1}
    /\ context = ContextOf(1, 1)
    /\ nextB = 2 /\ nextC <= 2

\* A resetPage that followed a setup has resolved and its last call opened the
\* second page.
C11_Witness ==
  /\ SetupThen("resetPage")
  /\ tasks[2].last = [call |-> "newPage", on |-> ContextOf(1, 1)]
  /\ page = 2

----------------------------------------------------------------------------
\* The releases of a resetBrowser that follows a setup come in the order page,
\* isolated context, connection, and the new connection is made after them.
C12_Order ==
  tasks[1].op = "setup" /\ tasks[1].res = "ok" /\ tasks'[2].op = "resetBrowser"
    /\ Calls(2) =>
      /\ tasks'[2].last.call = "context.close" => pages = {} /\ page = 0
      /\ tasks'[2].last.call = "browser.disconnect" =>
            pages = {} /\ incognitos = {} /\ page = 0 /\ context = NoContext
      /\ tasks'[2].last.call = "connect" =>
            pages = {} /\ incognitos = {} /\ connected = {} /\ Idle

(* C12: resetBrowser called in the PageOpen state a setup leaves, all      *)
(* client calls succeeding, ends in PageOpen with a browser, a context and *)
(* a page that are all different from the previous ones (connection 2, its *)
(* default context or the second isolated context, page 2), after the      *)
(* previous page, the previous isolated context (if any) and the previous  *)
(* connection have been released, in that order.                           *)
C12_ResetBrowserRenewsAll ==
  /\ [](SetupThen("resetBrowser") =>
          /\ PageOpen
          /\ browser = 2 /\ connected = {2}
          /\ context = ContextOf(2, 2)
          /\ incognitos = IF configBrowserContext = "incognito" THEN {2} ELSE {}
          /\ page = 2 /\ pages = {2})
  /\ [][C12_Order]_vars

\* A resetBrowser that followed a setup in mode "default" has resolved and
\* holds the default context of the second connection.
C12_Witness ==
  /\ SetupThen("resetBrowser")
  /\ configBrowserContext = "default"
  /\ context = DefaultContext(2)
  /\ tasks[2].last = [call |-> "newPage", on |-> DefaultContext(2)]

----------------------------------------------------------------------------
\* Some task has started closePage on page p: it has called close on it.
ClosePageStarted(p) ==
  \E t \in Tasks : tasks[t].last = [call |-> "page.close", on |-> PageH(p)]

(* C13: with exitOnPageError configured, a page error raised by the held   *)
(* page, once openPage has completed (the page is referenced) and before a *)
(* closePage on it has started, is forwarded to the process as exactly one *)
(* uncaughtException; without exitOnPageError no listener is attached to   *)
(* any page and no page error is forwarded.                                *)
C13_Step ==
  emitted'[1] # 0 =>
    /\ puppeteerConfig.exitOnPageError /\ emitted'[1] = page
          /\ ~ClosePageStarted(page) => emitted'[2] = 1
    /\ ~puppeteerConfig.exitOnPageError =>
          /\ emitted'[2] = 0
          /\ \A i \in DOMAIN listeners : listeners[i] = 0

C13_PageErrorForwardedOnce == [][C13_Step]_vars

\* The held page of a completed setup raised an error, forwarded once.
C13_Witness ==
  /\ puppeteerConfig.exitOnPageError
  /\ tasks[1].op = "setup" /\ tasks[1].res = "ok"
  /\ page = 1 /\ ~ClosePageStarted(1)
  /\ emitted = <<1, 1>>

----------------------------------------------------------------------------
(* C14: setup runs the acquisition and the creation of the screenshots     *)
(* directory concurrently: whenever the directory creation settles between *)
(* the acquisition steps, the promise of a setup resolves only once        *)
(* initAll has returned and mkdir has resolved, and a first setup that has *)
(* resolved has left the same PageOpen state: connection 1, its context,   *)
(* page 1.                                                                 *)
C14_SetupJoinsBoth ==
  /\ \A t \in Tasks :
       tasks[t].op = "setup" /\ tasks[t].res = "ok" =>
         tasks[t].st = "done" /\ tasks[t].mk = "ok"
  /\ tasks[1].op = "setup" /\ tasks[1].res = "ok"
       /\ (\A u \in Tasks : u > 1 => tasks[u].op = "none") =>
         /\ PageOpen
         /\ browser = 1 /\ connected = {1}
         /\ context = ContextOf(1, 1)
         /\ page = 1 /\ pages = {1}

\* A first setup has resolved.
C14_Witness ==
  /\ tasks[1].op = "setup" /\ tasks[1].res = "ok"
  /\ \A u \in Tasks : u > 1 => tasks[u].op = "none"
  /\ PageOpen

\* The directory was created before the browser was connected.
C14_MkdirFirst ==
  /\ tasks[1].op = "setup" /\ tasks[1].mk = "ok"
  /\ Pending(tasks[1]) = "connect"

\* The directory creation is still pending when the page has been opened.
C14_MkdirLast ==
  /\ tasks[1].op = "setup" /\ tasks[1].mk = "pending"
  /\ tasks[1].st = "done" /\ tasks[1].res = "pending"
  /\ PageOpen

----------------------------------------------------------------------------
(* C15: debug performs its steps in a fixed order.  On entry it sets the   *)
(* test timeout to 345600000 ms (also when it then fails for want of a     *)
(* page) and only then evaluates the breakpoint in the held page; it       *)
(* blocks on standard input only in the continuation of an evaluation that *)
(* resolved, the timeout being set; and its promise resolves only when the *)
(* standard-input block is released.                                       *)
C15_Step(t) ==
  /\ Entering(t, "debug") =>
        /\ testTimeout' = DebugTimeout
        /\ page # 0 => /\ tasks'[t].last = [call |-> "evaluate", on |-> PageH(page)]
                       /\ tasks'[t].st = "wait"
  /\ Step(t) /\ tasks'[t].op = "debug" /\ Calls(t) =>
        /\ testTimeout' = DebugTimeout
        /\ tasks'[t].last.call \in {"evaluate", "blockStdin"}
        /\ tasks'[t].last.call = "blockStdin" =>
              /\ Pending(tasks[t]) = "evaluate"
              /\ tasks'[t].st = "wait"
              /\ testTimeout = DebugTimeout
  /\ Step(t) /\ tasks'[t].op = "debug" /\ tasks'[t].res = "ok" =>
        /\ Pending(tasks[t]) = "blockStdin"
        /\ testTimeout = DebugTimeout

C15_DebugOrder == [][\A t \in Tasks : C15_Step(t)]_vars

\* A debug that followed a setup has evaluated in the held page, blocked on
\* standard input and resolved at its release.
C15_Witness ==
  /\ tasks[1].op = "setup" /\ tasks[1].res = "ok"
  /\ tasks[2].op = "debug" /\ tasks[2].res = "ok"
  /\ tasks[2].last.call = "blockStdin"
  /\ testTimeout = DebugTimeout

----------------------------------------------------------------------------
(* C16: when the promise of a setup has settled, resolved or rejected, no  *)
(* acquisition step started by that setup is still in flight: initAll has  *)
(* returned or thrown, so the setup sets no reference afterwards.          *)
C16_SettledSetupIsQuiet ==
  \A t \in Tasks :
    tasks[t].op = "setup" /\ tasks[t].res # "pending" =>
      tasks[t].st \in {"done", "failed"}

----------------------------------------------------------------------------
\* The first operation was a setup whose initAll stopped with an error, the
\* second a teardown invoked after it whose promise resolved; nothing else was
\* invoked.
FailedSetupThenTeardown ==
  /\ tasks[1].op = "setup" /\ tasks[1].res = "err"
  /\ tasks[1].err # ErrClient("mkdir")
  /\ tasks[2].op = "teardown" /\ tasks[2].res = "ok"
  /\ \A u \in Tasks : u > 2 => tasks[u].op = "none"

(* C17: teardown recovers from a partially failed setup.  Whatever error   *)
(* stopped initAll (nothing held; only the browser held; browser and       *)
(* context held), a teardown whose client calls succeed ends with the      *)
(* browser, context and page references cleared and nothing left open,     *)
(* having released exactly what was held: it disconnected the connection   *)
(* if one was made and made no call if none was.                           *)
C17_TeardownRecovers ==
  FailedSetupThenTeardown =>
    /\ Idle
    /\ connected = {} /\ incognitos = {} /\ pages = {}
    /\ nextB = 1 => tasks[2].last = NoCall
    /\ nextB = 2 => tasks[2].last = [call |-> "browser.disconnect", on |-> BrowserH(1)]
    /\ nextP = 1

\* The page open of the setup failed with the browser and an isolated context
\* held; the teardown has released both.
C17_Witness ==
  /\ FailedSetupThenTeardown
  /\ tasks[1].err = ErrClient("newPage")
  /\ nextB = 2 /\ nextC = 2

\* The setup stopped at an unrecognised mode with only the browser held.
C17_WitnessBrowserOnly ==
  /\ FailedSetupThenTeardown
  /\ tasks[1].err = ErrMode("private")
  /\ nextB = 2

\* The connect of the setup failed with nothing held.
C17_WitnessNothingHeld ==
  /\ FailedSetupThenTeardown
  /\ tasks[1].err = ErrClient("connect")
  /\ tasks[2].last = NoCall

----------------------------------------------------------------------------
\* The release calls.
Releases == {"page.close", "context.close", "browser.disconnect"}

\* The release call task t awaited has rejected in the step.
Rejected(t) ==
  /\ Step(t) /\ ~MkdirSettles(t)
  /\ Pending(tasks[t]) \in Releases
  /\ ~Resolved(t, Pending(tasks[t]))

\* A reference cleared in the step is cleared by the continuation of a release
\* call that resolved in the step (the default context has no release call);
\* the call was made on the referenced resource itself if the task has not
\* overlapped with another.
ClearedByRelease ==
  /\ page # 0 /\ page' = 0 =>
        \E t \in Tasks :
          /\ Resolved(t, "page.close")
          /\ Alone(t) => Target(tasks[t]) = PageH(page)
  /\ isIncognito(context) /\ context' = NoContext =>
        \E t \in Tasks :
          /\ Resolved(t, "context.close")
          /\ Alone(t) => Target(tasks[t]) = context
  /\ browser # 0 /\ browser' = 0 =>
        \E t \in Tasks :
          /\ Resolved(t, "browser.disconnect")
          /\ Alone(t) => Target(tasks[t]) = BrowserH(browser)

(* C18: a reference is cleared only after its release call has completed   *)
(* successfully: only in the step in which a release call of its kind      *)
(* resolves, made on the referenced resource itself when the releasing     *)
(* operation has not overlapped with another.  If the page close, the      *)
(* isolated-context close or the                                           *)
(* disconnect rejects, no reference changes (the one being released and    *)
(* those of the resources not yet released stay set), and the operation    *)
(* fails there: it makes no later call.                                    *)
C18_Step(t) ==
  /\ Rejected(t) =>
        /\ refs' = refs
        /\ client' = client
        /\ tasks'[t].st = "failed"
        /\ tasks'[t].res = "err"
        /\ ~Calls(t)
  /\ Step(t) /\ tasks[t].st = "failed" => ~Calls(t) /\ refs' = refs

C18_ClearedOnlyAfterRelease ==
  [][(\A t \in Tasks : C18_Step(t)) /\ ClearedByRelease]_vars

\* The page close of a teardown that followed a setup rejected: all three
\* references are still set, and the teardown made no call after it.
C18_Witness ==
  /\ tasks[1].op = "setup" /\ tasks[1].res = "ok"
  /\ tasks[2].op = "teardown" /\ tasks[2].err = ErrClient("page.close")
  /\ tasks[2].last = [call |-> "page.close", on |-> PageH(1)]
  /\ PageOpen /\ pages = {1} /\ connected = {1}

----------------------------------------------------------------------------
\* No operation is in flight.
NoneInFlight == \A t \in Tasks : ~InFlight(t)

(* C19: whenever no operation is in flight, the held page, if any, has the *)
(* page-error listener attached exactly once when exitOnPageError is       *)
(* configured, and no page that is not (or no longer) referenced has the   *)
(* listener attached; also after a closePage whose close call failed.      *)
C19_ListenerFollowsPage ==
  NoneInFlight =>
    /\ page # 0 /\ puppeteerConfig.exitOnPageError => listeners[page] = 1
    /\ \A p \in DOMAIN listeners : p # page => listeners[p] = 0

----------------------------------------------------------------------------
(* C20: under fairness, with a recognised mode and every call to the       *)
(* client eventually returning successfully, a setup that is in flight     *)
(* eventually resolves in the PageOpen state, and a teardown started once  *)
(* the operations before it have completed eventually resolves in the Idle *)
(* state; neither stays in an intermediate state forever.                  *)
C20_EventuallySettles ==
  \A t \in Tasks :
    /\ (tasks[t].op = "setup" /\ tasks[t].res = "pending")
         ~> (tasks[t].res = "ok" /\ PageOpen)
    /\ (tasks[t].op = "teardown" /\ tasks[t].res = "pending")
         ~> (tasks[t].res = "ok" /\ Idle)

\* A teardown started after a completed setup has brought the environment
\* back to Idle.
C20_Witness ==
  /\ SetupThen("teardown")
  /\ tasks[1].mk = "ok"
  /\ tasks[2].last.call = "browser.disconnect"
  /\ Idle

====
